---- MODULE Spec2Model ----
(***************************************************************************)
(* Signup / identity-attestation protocol of the deuxdrop mailstore        *)
(* server (servers/lib/rdservers/signup/server.js).                        *)
(*                                                                         *)
(* Every connection of the signup endpoint carries one signup bundle.  The *)
(* handler _msg_root_signup spawns a ProcessSignupTask whose steps run one *)
(* after the other; the steps that call the account store suspend until    *)
(* the store answers, and that is where tasks of different connections     *)
(* interleave.  What a peer and the account store observe of a connection  *)
(* is recorded, in order, in trace.                                        *)
(***************************************************************************)
EXTENDS Integers, Sequences, FiniteSets, TLC

(***************************************************************************)
(* Bounds of the model.                                                    *)
(***************************************************************************)
\* longest clientAuths list of a signup bundle
MaxAuths == 2
\* most keys of a because payload
MaxBecause == 2
\* entries of poco.emails the BrowserID verifier is run on
MaxEmails == 2

\* the connections of the signup endpoint
Conns == {"c1", "c2"}
\* identities, each named by its root signing key; its long-term signing key
\* is identified with it
Idents == {"A", "B"}
\* client public keys
Keys == {"k1", "k2"}
\* server self-ident blobs a bundle may name as its transit server
ServerBlobs == {"us", "other"}
\* keys a because payload may carry; "captcha" is a kind the server does not know
BecauseKeys == {"none", "browserid", "captcha"}

(***************************************************************************)
(* Program constants.                                                      *)
(***************************************************************************)
CHALLENGE_NEVER == "never"
CHALLENGE_ALREADY_SIGNED_UP == "already-signed-up"
CHALLENGE_INVALID_BROWSERID == "bad-browserid-assertion"
CHALLENGE_SERVER_PROBLEM == "server-problem-try-again-later"

\* serverConfig.selfIdentBlob: the server's own self-signed blob
selfIdentBlob == "us"
\* conn.clientPublicKey: the key the transport authenticated for the connection
clientPublicKey(c) == "k1"

(***************************************************************************)
(* Signup bundles.                                                         *)
(***************************************************************************)
\* poco.emails as the bundle declares it
PocoEmails ==
  { [has |-> FALSE, list |-> <<>>],
    [has |-> TRUE, list |-> << [isString |-> TRUE, text |-> "a@x"] >>] }

\* poco: hasOwnProperty("displayName") and the value, emails, and the property
\* "email" (singular), which the bundles of the signup runs do not carry
Pocos ==
  { [hasDisplayName |-> d.has, displayName |-> d.name,
     hasEmails |-> e.has, emails |-> e.list,
     hasEmail |-> FALSE, email0 |-> ""] :
      d \in { [has |-> FALSE, name |-> ""], [has |-> TRUE, name |-> ""],
              [has |-> TRUE, name |-> "Alice"] },
      e \in PocoEmails }

\* a selfIdent blob that does not parse or is not signed by its own key
GarbageSelfIdent ==
  [wellFormed |-> FALSE, rootSignPubKey |-> "A", transitServerIdent |-> "other",
   poco |-> [hasDisplayName |-> FALSE, displayName |-> "",
             hasEmails |-> FALSE, emails |-> <<>>,
             hasEmail |-> FALSE, email0 |-> ""]]

SelfIdents ==
  {GarbageSelfIdent} \cup
  [wellFormed : {TRUE}, rootSignPubKey : Idents,
   transitServerIdent : ServerBlobs, poco : Pocos]

\* a client authorization blob: who signed it and the client key it names
AuthBlobs == [signer : Idents, authorizedKey : Keys]

SeqsUpTo(S, n) == UNION { [1..k -> S] : k \in 0..n }

ClientAuthLists ==
  { [isArray |-> FALSE, items |-> <<>>] } \cup
  { [isArray |-> TRUE, items |-> s] : s \in SeqsUpTo(AuthBlobs, MaxAuths) }

\* a BrowserID assertion as verifyBrowserId sees it: whether it unbundles,
\* whether its certificate chain verifies as of now, whether the audience of
\* its token holds a '.', the e-mail of its principal, whether the token is
\* signed by the principal's key
Assertions ==
  [wellFormed : {TRUE}, chainOk : BOOLEAN, audienceHasDot : BOOLEAN,
   principalEmail : {"a@x", "b@x"}, sigOk : BOOLEAN]

\* anything unbundleCertsAndAssertion throws on
MalformedAssertion ==
  [wellFormed |-> FALSE, chainOk |-> FALSE, audienceHasDot |-> FALSE,
   principalEmail |-> "a@x", sigOk |-> FALSE]

\* msg.because.browserid of the bundles of the signup runs: a string that is
\* no assertion
BecauseBrowserId == MalformedAssertion

\* the keys of msg.because in the order for..in visits them
Becauses ==
  { s \in SeqsUpTo(BecauseKeys, MaxBecause) :
      \A i, j \in 1..Len(s) : i # j => s[i] # s[j] }

AllMsgs ==
  [selfIdent : SelfIdents, clientAuths : ClientAuthLists, because : Becauses,
   browserid : {BecauseBrowserId}]

\* a bundle sent by a peer that is not otherwise under study
PlainMsg ==
  [selfIdent |-> [wellFormed |-> TRUE, rootSignPubKey |-> "A",
                  transitServerIdent |-> "us",
                  poco |-> [hasDisplayName |-> TRUE, displayName |-> "Alice",
                            hasEmails |-> FALSE, emails |-> <<>>,
             hasEmail |-> FALSE, email0 |-> ""]],
   clientAuths |-> [isArray |-> TRUE,
                    items |-> <<[signer |-> "A", authorizedKey |-> "k1"]>>],
   because |-> <<>>, browserid |-> BecauseBrowserId]

(***************************************************************************)
(* The task idiom (rdcommon/taskidiom): what a task does when a step       *)
(* throws or the promise a step returned is rejected.  A soft-failure task *)
(* resolves with false; any other task is rejected.                        *)
(***************************************************************************)
OnStepFailure(discipline) ==
  IF discipline = "softFailure" THEN "resolveFalse" ELSE "reject"

\* validateSignupRequest defined as an ordinary task
MutValidateSignupRequestOrdinaryTask == "ordinary"

\* taskMaster.defineSoftFailureTask({name: 'validateSignupRequest', ...})
ValidateSignupRequestDiscipline == "softFailure"

\* processSignup defined as a soft-failure task
MutProcessSignupSoftFailure == "softFailure"

\* taskMaster.defineEarlyReturnTask({name: 'processSignup', ...})
ProcessSignupDiscipline == "earlyReturn"

(***************************************************************************)
(* ValidateSignupRequestTask                                               *)
(***************************************************************************)
\* $pubident.assertGetPersonSelfIdent(blob, null): TRUE when it throws
assertGetPersonSelfIdentThrows(blob) == ~blob.wellFormed

\* $keyops.assertCheckGetAttestation(blob, "client", authorizedKeys): TRUE
\* when it throws, which it does unless one of authorizedKeys signed the blob
assertCheckGetAttestationThrows(blob, authorizedKeys) ==
  blob.signer \notin authorizedKeys

\* validateSelfIdent without the comparison with the server's own blob
MutValidateSelfIdentNoTransitCheck(m, serverBlob) ==
  IF assertGetPersonSelfIdentThrows(m.selfIdent)
    THEN [threw |-> TRUE, error |-> "MalformedPayloadError", payload |-> m.selfIdent]
  ELSE IF ~m.selfIdent.poco.hasDisplayName
    THEN [threw |-> TRUE, error |-> "MalformedPayloadError", payload |-> m.selfIdent]
  ELSE [threw |-> FALSE, error |-> "", payload |-> m.selfIdent]

\* validateSelfIdent without the displayName test
MutValidateSelfIdentNoDisplayName(m, serverBlob) ==
  IF assertGetPersonSelfIdentThrows(m.selfIdent)
    THEN [threw |-> TRUE, error |-> "MalformedPayloadError", payload |-> m.selfIdent]
  ELSE IF m.selfIdent.transitServerIdent # serverBlob
    THEN [threw |-> TRUE, error |-> "KeyMismatchError", payload |-> m.selfIdent]
  ELSE [threw |-> FALSE, error |-> "", payload |-> m.selfIdent]

\* step validateSelfIdent: the step throws, or sets this.personSelfIdentPayload
validateSelfIdent(m, serverBlob) ==
  IF assertGetPersonSelfIdentThrows(m.selfIdent)
    THEN [threw |-> TRUE, error |-> "MalformedPayloadError", payload |-> m.selfIdent]
  ELSE IF m.selfIdent.transitServerIdent # serverBlob
    THEN [threw |-> TRUE, error |-> "KeyMismatchError", payload |-> m.selfIdent]
  ELSE IF ~m.selfIdent.poco.hasDisplayName
    THEN [threw |-> TRUE, error |-> "MalformedPayloadError", payload |-> m.selfIdent]
  ELSE [threw |-> FALSE, error |-> "", payload |-> m.selfIdent]

\* clientAuthsMap after the loop ran over items[1..n]: a later blob that names
\* the same key replaces an earlier one
ClientAuthsMapOf(items) ==
  { [authorizedKey |-> items[i].authorizedKey, blob |-> items[i]] :
      i \in { i \in 1..Len(items) :
                \A j \in (i+1)..Len(items) :
                   items[j].authorizedKey # items[i].authorizedKey } }

\* the value validBits has when the request is not valid
NoBits ==
  [valid |-> FALSE, selfIdentPayload |-> GarbageSelfIdent, clientAuthsMap |-> {}]

\* validateClientAuth without the test of foundClientWeAreTalkingTo
MutValidateClientAuthNoFoundCheck(m, payload, connKey) ==
  LET items == m.clientAuths.items
  IN IF ~m.clientAuths.isArray \/ Len(items) = 0
       THEN [threw |-> TRUE, error |-> "MalformedPayloadError", value |-> NoBits]
     ELSE IF \E i \in 1..Len(items) :
                assertCheckGetAttestationThrows(items[i], {payload.rootSignPubKey})
       THEN [threw |-> TRUE, error |-> "InvalidAuthorizationError", value |-> NoBits]
     ELSE [threw |-> FALSE, error |-> "",
           value |-> [valid |-> TRUE, selfIdentPayload |-> payload,
                      clientAuthsMap |-> ClientAuthsMapOf(items)]]

\* validateClientAuth that verifies only the first authorization
MutValidateClientAuthFirstOnly(m, payload, connKey) ==
  LET items == m.clientAuths.items
  IN IF ~m.clientAuths.isArray \/ Len(items) = 0
       THEN [threw |-> TRUE, error |-> "MalformedPayloadError", value |-> NoBits]
     ELSE IF assertCheckGetAttestationThrows(items[1], {payload.rootSignPubKey})
       THEN [threw |-> TRUE, error |-> "InvalidAuthorizationError", value |-> NoBits]
     ELSE IF ~(\E i \in 1..Len(items) : items[i].authorizedKey = connKey)
       THEN [threw |-> TRUE, error |-> "UnauthorizedUserDataLeakError", value |-> NoBits]
     ELSE [threw |-> FALSE, error |-> "",
           value |-> [valid |-> TRUE, selfIdentPayload |-> payload,
                      clientAuthsMap |-> ClientAuthsMapOf(items)]]

\* step validateClientAuth: the step throws, or returns
\* {selfIdentPayload, clientAuthsMap}
validateClientAuth(m, payload, connKey) ==
  LET clientAuthBlobs == m.clientAuths
      items == clientAuthBlobs.items
      authorizedKeys == {payload.rootSignPubKey}
      foundClientWeAreTalkingTo ==
        \E i \in 1..Len(items) : items[i].authorizedKey = connKey
  IN IF ~clientAuthBlobs.isArray \/ Len(items) = 0
       THEN [threw |-> TRUE, error |-> "MalformedPayloadError", value |-> NoBits]
     ELSE IF \E i \in 1..Len(items) :
                assertCheckGetAttestationThrows(items[i], authorizedKeys)
       THEN [threw |-> TRUE, error |-> "InvalidAuthorizationError", value |-> NoBits]
     ELSE IF ~foundClientWeAreTalkingTo
       THEN [threw |-> TRUE, error |-> "UnauthorizedUserDataLeakError", value |-> NoBits]
     ELSE [threw |-> FALSE, error |-> "",
           value |-> [valid |-> TRUE, selfIdentPayload |-> payload,
                      clientAuthsMap |-> ClientAuthsMapOf(items)]]

\* how the validator task settles when one of its steps threw
ValidatorFailed ==
  IF OnStepFailure(ValidateSignupRequestDiscipline) = "resolveFalse"
    THEN [settled |-> "resolved", value |-> NoBits]
    ELSE [settled |-> "rejected", value |-> NoBits]

\* the whole validator task: its two steps in order
ValidateSignupRequestTask(m, connKey, serverBlob) ==
  LET r1 == validateSelfIdent(m, serverBlob)
      r2 == validateClientAuth(m, r1.payload, connKey)
  IN IF r1.threw THEN ValidatorFailed
     ELSE IF r2.threw THEN ValidatorFailed
     ELSE [settled |-> "resolved", value |-> r2.value]

(***************************************************************************)
(* ProcessSignupTask: helpers of its steps                                 *)
(***************************************************************************)
\* the names the module binds: the parameters of its define() callback
ModuleScope ==
  {"$log", "$task", "$taskerrors", "$keyops", "$pubident",
   "$jwc_jwcert", "$jwc_vep", "$jwc_jwt", "$module", "exports"}

\* step determineChallenges: this.challenges
SupportedChallenges == <<"none", "browserid">>

IndexOf(seq, x) ==
  IF \E i \in 1..Len(seq) : seq[i] = x
    THEN (CHOOSE i \in 1..Len(seq) :
            seq[i] = x /\ \A j \in 1..(i-1) : seq[j] # x) - 1
    ELSE -1

\* how a call of verifyBrowserId ends: by a throw (result names the error) or
\* by returning result ("" for undefined); whether it unbundled the assertion,
\* called verifyChain, returned a promise
VerifierOutcome(threw, result, unbundled, chain, promise) ==
  [threw |-> threw, result |-> result, unbundled |-> unbundled,
   chain |-> chain, promise |-> promise]

\* impl verifyBrowserId.  poco.email (singular) is read where poco.emails was
\* checked; $Q is not bound, and where it is, deferred is the function
\* $Q.defer itself, so that deferred.promise is undefined
verifyBrowserId(poco, assertion) ==
  IF \/ ~poco.hasEmails
     \/ Len(poco.emails) # 1
     \/ ~poco.emails[1].isString
    THEN VerifierOutcome(FALSE, CHALLENGE_INVALID_BROWSERID, FALSE, FALSE, FALSE)
  ELSE IF ~poco.hasEmail
    THEN VerifierOutcome(TRUE, "TypeError", FALSE, FALSE, FALSE)
  ELSE IF ~assertion.wellFormed
    THEN VerifierOutcome(FALSE, CHALLENGE_INVALID_BROWSERID, TRUE, FALSE, FALSE)
  ELSE IF "$Q" \notin ModuleScope
    THEN VerifierOutcome(TRUE, "ReferenceError", TRUE, FALSE, FALSE)
  ELSE VerifierOutcome(FALSE, "", TRUE, TRUE, FALSE)

\* a BecauseLoop in which a key that is not in this.challenges reaches the
\* switch, whose default case throws
RECURSIVE MutBecauseLoopNoSkip(_, _, _, _, _, _)
MutBecauseLoopNoSkip(because, i, assertion, payload, challenges, verified) ==
  IF i > Len(because) THEN [end |-> "next", verified |-> verified]
  ELSE IF because[i] \notin {"browserid", "none"}
    THEN [end |-> "throw", verified |-> verified]
  ELSE LET r == IF because[i] = "browserid"
                  THEN verifyBrowserId(payload.poco, assertion)
                  ELSE VerifierOutcome(FALSE, "", FALSE, FALSE, FALSE)
           n == IF because[i] = "browserid" THEN verified + 1 ELSE verified
       IN IF r.threw THEN [end |-> "throw", verified |-> n]
          ELSE IF "$Q" \notin ModuleScope THEN [end |-> "throw", verified |-> n]
          ELSE IF r.result # "" THEN [end |-> "throw", verified |-> n]
          ELSE MutBecauseLoopNoSkip(because, i + 1, assertion, payload,
                                    challenges, n)

\* the for..in loop of checkOrGenerateChallenge, from key i on, assertion
\* being msg.because.browserid and verified the calls of verifyBrowserId made
\* so far: end is "next" when the loop ends with no promise collected and
\* "throw" when a statement of the loop throws
RECURSIVE BecauseLoop(_, _, _, _, _, _)
BecauseLoop(because, i, assertion, payload, challenges, verified) ==
  IF i > Len(because) THEN [end |-> "next", verified |-> verified]
  ELSE IF IndexOf(challenges, because[i]) = -1
    THEN BecauseLoop(because, i + 1, assertion, payload, challenges, verified)
  ELSE LET r == IF because[i] = "browserid"
                  THEN verifyBrowserId(payload.poco, assertion)
                  ELSE VerifierOutcome(FALSE, "", FALSE, FALSE, FALSE)
           n == IF because[i] = "browserid" THEN verified + 1 ELSE verified
       IN IF r.threw THEN [end |-> "throw", verified |-> n]
          \* $Q.isPromise(result)
          ELSE IF "$Q" \notin ModuleScope THEN [end |-> "throw", verified |-> n]
          \* respondWithChallenge(problemo)
          ELSE IF r.result # "" THEN [end |-> "throw", verified |-> n]
          ELSE BecauseLoop(because, i + 1, assertion, payload, challenges, n)

\* step checkOrGenerateChallenge: no promise is ever collected, so the step
\* ends where the loop ends
checkOrGenerateChallenge(m, payload, challenges) ==
  LET passed == IndexOf(challenges, "none") # -1
  IN BecauseLoop(m.because, 1, m.browserid, payload, challenges, 0)

(***************************************************************************)
(* State                                                                   *)
(***************************************************************************)
VARIABLES
  pc,        \* per connection: where its signup task stands
  msg,       \* per connection: the signup bundle its peer sends
  task,      \* per connection: the fields of its ProcessSignupTask
  trace,     \* per connection: what the peer and the account store saw, in order
  accounts,  \* the account store: the root keys that have an account
  hadAccount, \* per connection: whether the store held an account for the
              \* bundle's root key when the connection's task was spawned
  verifier,  \* one call of verifyBrowserId: its inputs, and how it ended
  bookPc,    \* per phonebook connection: where its PhonebookTask stands
  bookState, \* per phonebook connection: the protocol state of the connection
  bookArg,   \* per phonebook connection: the value the step before settled with
  bookTrace, \* per phonebook connection: what the peer and the store saw, in order
  publicListing, \* the account store: the blobs of its public listing
  challengeRun, \* one run of the step checkOrGenerateChallenge: its inputs, its end
  backside,  \* a ModaBackside, its notification king, store and bridge
  relay      \* the demo relay: its clients table and its sockets

\* the variables of the phonebook endpoint
bookVars == <<bookPc, bookState, bookArg, bookTrace, publicListing>>
\* what the signup endpoint leaves alone
aside == <<verifier, bookVars, challengeRun, backside, relay>>
\* the variables of the signup endpoint
signup == <<pc, msg, task, trace, accounts, hadAccount>>
\* what a run of the verifier, the phonebook endpoint, a run of the challenge
\* step, the backside and the relay leave alone
exceptVerifier == <<signup, bookVars, challengeRun, backside, relay>>
exceptBook == <<signup, verifier, challengeRun, backside, relay>>
exceptChallenge == <<signup, verifier, bookVars, backside, relay>>
exceptBackside == <<signup, verifier, bookVars, challengeRun, relay>>
exceptRelay == <<signup, verifier, bookVars, challengeRun, backside>>

vars == <<pc, msg, task, trace, accounts, hadAccount, verifier,
          bookPc, bookState, bookArg, bookTrace, publicListing,
          challengeRun, backside, relay>>

\* blobs the public listing may hold
PublicBlobs == {"blobA", "blobB"}

\* the verifier before it is called on anything
VerifierIdle ==
  [phase |-> "idle",
   poco |-> [hasDisplayName |-> TRUE, displayName |-> "Alice",
             hasEmails |-> FALSE, emails |-> <<>>,
             hasEmail |-> FALSE, email0 |-> ""],
   assertion |-> MalformedAssertion,
   outcome |-> VerifierOutcome(FALSE, "", FALSE, FALSE, FALSE)]

\* no phonebook connection is open
BookIdle ==
  /\ bookPc = [c \in Conns |-> "absent"]
  /\ bookState = [c \in Conns |-> "root"]
  /\ bookArg = [c \in Conns |-> {}]
  /\ bookTrace = [c \in Conns |-> <<>>]
  /\ publicListing = {}

\* no run of the challenge step is under way, no backside exists, the relay
\* is not started
ChallengeIdle == challengeRun = [phase |-> "idle"]
BacksideIdle == backside = [phase |-> "idle"]
RelayIdle == relay = [phase |-> "idle"]

\* nothing but the signup endpoint is at work
AsideIdle ==
  /\ verifier = VerifierIdle
  /\ BookIdle
  /\ ChallengeIdle
  /\ BacksideIdle
  /\ RelayIdle

Ev(ev, what, arg) == [ev |-> ev, what |-> what, arg |-> arg]

NewTask ==
  [validBits |-> NoBits, selfIdentPayload |-> GarbageSelfIdent,
   clientAuthsMap |-> {}, hasAccount |-> FALSE, challenges |-> <<>>]

\* bundles of the runs in which two connections are served at once
PairMsgs ==
  { m \in AllMsgs :
      /\ m.selfIdent \in {GarbageSelfIdent} \cup
           { s \in SelfIdents : s.wellFormed /\ s.poco.displayName = "Alice"
                                 /\ ~s.poco.hasEmails }
      /\ m.clientAuths.isArray /\ Len(m.clientAuths.items) = 1
      /\ m.clientAuths.items[1].signer = "A"
      /\ Len(m.because) <= 1 }

\* either both connections are served at once, each with a bundle of PairMsgs,
\* or c1 alone is served, with any bundle
Init ==
  /\ \/ /\ msg \in [Conns -> PairMsgs]
        /\ pc = [c \in Conns |-> "root"]
     \/ /\ \E m \in AllMsgs : msg = [c \in Conns |-> IF c = "c1" THEN m ELSE PlainMsg]
        /\ pc = [c \in Conns |-> IF c = "c1" THEN "root" ELSE "absent"]
  /\ task = [c \in Conns |-> NewTask]
  /\ trace = [c \in Conns |-> <<>>]
  /\ accounts \in SUBSET Idents
  /\ hadAccount = [c \in Conns |-> FALSE]
  /\ AsideIdle

(***************************************************************************)
(* The connection and the steps of ProcessSignupTask, one action each      *)
(***************************************************************************)
\* respondWithChallenge that writes the challenge and leaves the connection open
MutRespondWithChallengeNoClose(tr, challengeType) ==
  Append(tr, [ev |-> "write", what |-> "challenge", arg |-> challengeType])

\* impl respondWithChallenge: write the challenge, close the connection
respondWithChallenge(tr, challengeType) ==
  tr \o << Ev("write", "challenge", challengeType), Ev("close", "", "") >>

\* where the task goes when a step threw or the promise it waits on is rejected
AfterFailure ==
  IF OnStepFailure(ProcessSignupDiscipline) = "reject" THEN "rejected" ELSE "settled"

\* SignupConnection._msg_root_signup: spawn the task for the message
MsgRootSignup(c) ==
  /\ pc[c] = "root"
  /\ pc' = [pc EXCEPT ![c] = "validateSignupRequest"]
  /\ task' = [task EXCEPT ![c] = NewTask]
  /\ hadAccount' = [hadAccount EXCEPT ![c] =
       msg[c].selfIdent.wellFormed /\ msg[c].selfIdent.rootSignPubKey \in accounts]
  /\ UNCHANGED <<msg, trace, accounts, aside>>

\* step validateSignupRequest: run the validator task and wait for it
ValidateSignupRequest(c) ==
  /\ pc[c] = "validateSignupRequest"
  /\ LET r == ValidateSignupRequestTask(msg[c], clientPublicKey(c), selfIdentBlob)
     IN IF r.settled = "resolved"
          THEN /\ task' = [task EXCEPT ![c].validBits = r.value]
               /\ pc' = [pc EXCEPT ![c] = "dealWithInvalidRequest"]
          ELSE /\ task' = task
               /\ pc' = [pc EXCEPT ![c] = AfterFailure]
  /\ UNCHANGED <<msg, trace, accounts, hadAccount, aside>>

\* step dealWithInvalidRequest
DealWithInvalidRequest(c) ==
  /\ pc[c] = "dealWithInvalidRequest"
  /\ IF ~task[c].validBits.valid
       THEN /\ trace' = [trace EXCEPT ![c] = respondWithChallenge(@, CHALLENGE_NEVER)]
            /\ pc' = [pc EXCEPT ![c] = "settled"]
            /\ task' = task
       ELSE /\ task' = [task EXCEPT
                 ![c].selfIdentPayload = task[c].validBits.selfIdentPayload,
                 ![c].clientAuthsMap = task[c].validBits.clientAuthsMap]
            /\ pc' = [pc EXCEPT ![c] = "checkForExistingAccount"]
            /\ trace' = trace
  /\ UNCHANGED <<msg, accounts, hadAccount, aside>>

\* checkForExistingAccount that calls the store and does not return the
\* promise: the next step runs at once, with hasAccount undefined
MutCheckForExistingAccountNoReturn(c) ==
  /\ pc[c] = "checkForExistingAccount"
  /\ trace' = [trace EXCEPT ![c] =
       Append(@, [ev |-> "call", what |-> "serverCheckUserAccount",
                  arg |-> task[c].selfIdentPayload.rootSignPubKey])]
  /\ pc' = [pc EXCEPT ![c] = "verifyNoExistingAccount"]
  /\ UNCHANGED <<msg, task, accounts, hadAccount, aside>>

\* step checkForExistingAccount: call the store and wait for its answer
CheckForExistingAccount(c) ==
  /\ pc[c] = "checkForExistingAccount"
  /\ trace' = [trace EXCEPT ![c] =
       Append(@, Ev("call", "serverCheckUserAccount",
                    task[c].selfIdentPayload.rootSignPubKey))]
  /\ pc' = [pc EXCEPT ![c] = "awaitCheck"]
  /\ UNCHANGED <<msg, task, accounts, hadAccount, aside>>

\* authApi.serverCheckUserAccount settles: with whether the store holds an
\* account for the key, or with a failure
ServerCheckUserAccountSettles(c) ==
  /\ pc[c] = "awaitCheck"
  /\ LET key == trace[c][Len(trace[c])].arg
     IN \/ /\ trace' = [trace EXCEPT ![c] =
                Append(@, Ev("return", "serverCheckUserAccount",
                             IF key \in accounts THEN "true" ELSE "false"))]
           /\ task' = [task EXCEPT ![c].hasAccount = key \in accounts]
           /\ pc' = [pc EXCEPT ![c] = "verifyNoExistingAccount"]
        \/ /\ trace' = [trace EXCEPT ![c] =
                Append(@, Ev("return", "serverCheckUserAccount", "rejected"))]
           /\ task' = task
           /\ pc' = [pc EXCEPT ![c] = AfterFailure]
  /\ UNCHANGED <<msg, accounts, hadAccount, aside>>

\* verifyNoExistingAccount with its test inverted
MutVerifyNoExistingAccountInverted(c) ==
  /\ pc[c] = "verifyNoExistingAccount"
  /\ IF ~task[c].hasAccount
       THEN /\ trace' = [trace EXCEPT ![c] =
                 respondWithChallenge(@, CHALLENGE_ALREADY_SIGNED_UP)]
            /\ pc' = [pc EXCEPT ![c] = "settled"]
       ELSE /\ trace' = trace
            /\ pc' = [pc EXCEPT ![c] = "determineChallenges"]
  /\ UNCHANGED <<msg, task, accounts, hadAccount, aside>>

\* verifyNoExistingAccount that answers but does not return early
MutVerifyNoExistingAccountNoReturn(c) ==
  /\ pc[c] = "verifyNoExistingAccount"
  /\ trace' = [trace EXCEPT ![c] =
       IF task[c].hasAccount
         THEN respondWithChallenge(@, CHALLENGE_ALREADY_SIGNED_UP) ELSE @]
  /\ pc' = [pc EXCEPT ![c] = "determineChallenges"]
  /\ UNCHANGED <<msg, task, accounts, hadAccount, aside>>

\* verifyNoExistingAccount that ignores hasAccount
MutVerifyNoExistingAccountIgnores(c) ==
  /\ pc[c] = "verifyNoExistingAccount"
  /\ trace' = trace
  /\ pc' = [pc EXCEPT ![c] = "determineChallenges"]
  /\ UNCHANGED <<msg, task, accounts, hadAccount, aside>>

\* step verifyNoExistingAccount
VerifyNoExistingAccount(c) ==
  /\ pc[c] = "verifyNoExistingAccount"
  /\ IF task[c].hasAccount
       THEN /\ trace' = [trace EXCEPT ![c] =
                 respondWithChallenge(@, CHALLENGE_ALREADY_SIGNED_UP)]
            /\ pc' = [pc EXCEPT ![c] = "settled"]
       ELSE /\ trace' = trace
            /\ pc' = [pc EXCEPT ![c] = "determineChallenges"]
  /\ UNCHANGED <<msg, task, accounts, hadAccount, aside>>

\* step determineChallenges
DetermineChallenges(c) ==
  /\ pc[c] = "determineChallenges"
  /\ task' = [task EXCEPT ![c].challenges = SupportedChallenges]
  /\ pc' = [pc EXCEPT ![c] = "checkOrGenerateChallenge"]
  /\ UNCHANGED <<msg, trace, accounts, hadAccount, aside>>

\* checkOrGenerateChallenge in a module that binds problemo to nothing: a
\* failing step answers with a challenge whose mechanism is undefined
MutCheckOrGenerateChallengeUndefined(c) ==
  /\ pc[c] = "checkOrGenerateChallenge"
  /\ IF checkOrGenerateChallenge(msg[c], task[c].selfIdentPayload,
                                 task[c].challenges).end = "next"
       THEN /\ pc' = [pc EXCEPT ![c] = "doTheSignup"]
            /\ trace' = trace
       ELSE /\ pc' = [pc EXCEPT ![c] = "settled"]
            /\ trace' = [trace EXCEPT ![c] = respondWithChallenge(@, "undefined")]
  /\ UNCHANGED <<msg, task, accounts, hadAccount, aside>>

\* step checkOrGenerateChallenge
CheckOrGenerateChallenge(c) ==
  /\ pc[c] = "checkOrGenerateChallenge"
  /\ pc' = [pc EXCEPT ![c] =
       IF checkOrGenerateChallenge(msg[c], task[c].selfIdentPayload,
                                   task[c].challenges).end = "next"
         THEN "doTheSignup" ELSE AfterFailure]
  /\ UNCHANGED <<msg, task, trace, accounts, hadAccount, aside>>

\* doTheSignup that calls the store and does not return the promise: the
\* task goes on without waiting for the store
MutDoTheSignupNoReturn(c) ==
  /\ pc[c] = "doTheSignup"
  /\ trace' = [trace EXCEPT ![c] =
       Append(@, [ev |-> "call", what |-> "serverCreateUserAccount",
                  arg |-> task[c].selfIdentPayload.rootSignPubKey])]
  /\ pc' = [pc EXCEPT ![c] = "tellThemTheyAreSignedUp"]
  /\ UNCHANGED <<msg, task, accounts, hadAccount, aside>>

\* step doTheSignup: call the store and wait for its answer
DoTheSignup(c) ==
  /\ pc[c] = "doTheSignup"
  /\ trace' = [trace EXCEPT ![c] =
       Append(@, Ev("call", "serverCreateUserAccount",
                    task[c].selfIdentPayload.rootSignPubKey))]
  /\ pc' = [pc EXCEPT ![c] = "awaitCreate"]
  /\ UNCHANGED <<msg, task, accounts, hadAccount, aside>>

\* authApi.serverCreateUserAccount settles: the store creates the account
\* unless the key has one, or fails
ServerCreateUserAccountSettles(c) ==
  /\ pc[c] = "awaitCreate"
  /\ LET key == trace[c][Len(trace[c])].arg
     IN \/ /\ key \notin accounts
           /\ accounts' = accounts \cup {key}
           /\ trace' = [trace EXCEPT ![c] =
                Append(@, Ev("return", "serverCreateUserAccount", "created"))]
           /\ pc' = [pc EXCEPT ![c] = "tellThemTheyAreSignedUp"]
        \/ /\ accounts' = accounts
           /\ trace' = [trace EXCEPT ![c] =
                Append(@, Ev("return", "serverCreateUserAccount", "rejected"))]
           /\ pc' = [pc EXCEPT ![c] = AfterFailure]
  /\ UNCHANGED <<msg, task, hadAccount, aside>>

\* step tellThemTheyAreSignedUp
TellThemTheyAreSignedUp(c) ==
  /\ pc[c] = "tellThemTheyAreSignedUp"
  /\ trace' = [trace EXCEPT ![c] =
       @ \o << Ev("write", "signedUp", ""), Ev("close", "", "") >>]
  /\ pc' = [pc EXCEPT ![c] = "settled"]
  /\ UNCHANGED <<msg, task, accounts, hadAccount, aside>>

\* the connection when the task its handler returned is rejected: answer with
\* the generic challenge and close
HandlerFailure(c) ==
  /\ pc[c] = "rejected"
  /\ trace' = [trace EXCEPT ![c] =
       @ \o << Ev("write", "challenge", CHALLENGE_SERVER_PROBLEM),
               Ev("close", "", "") >>]
  /\ pc' = [pc EXCEPT ![c] = "settled"]
  /\ UNCHANGED <<msg, task, accounts, hadAccount, aside>>

\* one step of the connection c or of its task
ConnStep(c) ==
  \/ MsgRootSignup(c)
  \/ ValidateSignupRequest(c)
  \/ DealWithInvalidRequest(c)
  \/ CheckForExistingAccount(c)
  \/ ServerCheckUserAccountSettles(c)
  \/ VerifyNoExistingAccount(c)
  \/ DetermineChallenges(c)
  \/ CheckOrGenerateChallenge(c)
  \/ DoTheSignup(c)
  \/ ServerCreateUserAccountSettles(c)
  \/ TellThemTheyAreSignedUp(c)
  \/ HandlerFailure(c)

Next == \E c \in Conns : ConnStep(c)

Spec == Init /\ [][Next]_vars

(***************************************************************************)
(* The signup endpoint with peers that drop their connection while their   *)
(* task waits for the account store                                        *)
(***************************************************************************)
\* a drop that is noticed but leaves the task of the connection running
MutConnectionDroppedKeepsTask(c) ==
  /\ pc[c] \in {"awaitCheck", "awaitCreate"}
  /\ trace[c][Len(trace[c])].ev = "call"
  /\ trace' = [trace EXCEPT ![c] =
       Append(@, Ev("drop", "", trace[c][Len(trace[c])].arg))]
  /\ UNCHANGED <<pc, msg, task, accounts, hadAccount, aside>>

\* the connection of c is closed or dropped while its task waits for the
\* store: the task is released, the call stays in flight
ConnectionDropped(c) ==
  /\ pc[c] \in {"awaitCheck", "awaitCreate"}
  /\ trace' = [trace EXCEPT ![c] = Append(@, Ev("drop", "", ""))]
  /\ pc' = [pc EXCEPT ![c] =
       IF pc[c] = "awaitCheck" THEN "droppedCheck" ELSE "droppedCreate"]
  /\ UNCHANGED <<msg, task, accounts, hadAccount, aside>>

\* the store completes a call whose connection is gone: its result is
\* discarded
DroppedCallCompletes(c) ==
  /\ pc[c] \in {"droppedCheck", "droppedCreate"}
  /\ LET key == trace[c][Len(trace[c]) - 1].arg
     IN IF pc[c] = "droppedCheck"
          THEN /\ \E r \in {IF key \in accounts THEN "true" ELSE "false",
                            "rejected"} :
                    trace' = [trace EXCEPT ![c] =
                      Append(@, Ev("return", "serverCheckUserAccount", r))]
               /\ accounts' = accounts
          ELSE \/ /\ key \notin accounts
                  /\ accounts' = accounts \cup {key}
                  /\ trace' = [trace EXCEPT ![c] =
                       Append(@, Ev("return", "serverCreateUserAccount", "created"))]
               \/ /\ accounts' = accounts
                  /\ trace' = [trace EXCEPT ![c] =
                       Append(@, Ev("return", "serverCreateUserAccount", "rejected"))]
  /\ pc' = [pc EXCEPT ![c] = "released"]
  /\ UNCHANGED <<msg, task, hadAccount, aside>>

NextDrop ==
  \/ Next
  \/ \E c \in Conns : ConnectionDropped(c)
  \/ \E c \in Conns : DroppedCallCompletes(c)

SpecDrop == Init /\ [][NextDrop]_vars

\* no signup connection is open
SignupIdle ==
  /\ pc = [c \in Conns |-> "absent"]
  /\ msg = [c \in Conns |-> PlainMsg]
  /\ task = [c \in Conns |-> NewTask]
  /\ trace = [c \in Conns |-> <<>>]
  /\ accounts = {}
  /\ hadAccount = [c \in Conns |-> FALSE]

(***************************************************************************)
(* verifyBrowserId, run on every profile and assertion of the bounds       *)
(***************************************************************************)
\* poco.emails of the profiles the verifier is run on: absent, or up to
\* MaxEmails entries, strings or not
VerifierEmails ==
  { [has |-> FALSE, list |-> <<>>] } \cup
  { [has |-> TRUE, list |-> l] :
      l \in SeqsUpTo([isString : BOOLEAN, text : {"a@x", "b@x"}], MaxEmails) }

\* the profiles the verifier is run on; email0 is poco.email[0] where poco has
\* the property "email"
VerifierPocos ==
  { [hasDisplayName |-> TRUE, displayName |-> "Alice",
     hasEmails |-> e.has, emails |-> e.list,
     hasEmail |-> s.has, email0 |-> s.first] :
      e \in VerifierEmails,
      s \in { [has |-> FALSE, first |-> ""], [has |-> TRUE, first |-> "a@x"],
              [has |-> TRUE, first |-> "b@x"] } }

InitBrowserId ==
  /\ SignupIdle
  /\ \E p \in VerifierPocos, a \in Assertions \cup {MalformedAssertion} :
       verifier = [phase |-> "called", poco |-> p, assertion |-> a,
                   outcome |-> VerifierOutcome(FALSE, "", FALSE, FALSE, FALSE)]
  /\ BookIdle
  /\ ChallengeIdle
  /\ BacksideIdle
  /\ RelayIdle

\* the call this.verifyBrowserId(assertion) runs to its return or throw
VerifyBrowserId ==
  /\ verifier.phase = "called"
  /\ verifier' = [verifier EXCEPT
       !.phase = "ended",
       !.outcome = verifyBrowserId(verifier.poco, verifier.assertion)]
  /\ UNCHANGED exceptVerifier

NextBrowserId == VerifyBrowserId

SpecBrowserId == InitBrowserId /\ [][NextBrowserId]_vars

(***************************************************************************)
(* The step checkOrGenerateChallenge, run on every because payload,        *)
(* profile and assertion of the bounds                                     *)
(***************************************************************************)
\* the keys of msg.because of these runs: those of BecauseKeys and one more
\* kind the server does not know
ChallengeBecauses ==
  { s \in SeqsUpTo(BecauseKeys \cup {"sms"}, MaxBecause) :
      \A i, j \in 1..Len(s) : i # j => s[i] # s[j] }

InitChallenge ==
  /\ SignupIdle
  /\ verifier = VerifierIdle
  /\ BookIdle
  /\ \E b \in ChallengeBecauses, a \in Assertions \cup {MalformedAssertion},
        p \in VerifierPocos :
       challengeRun = [phase |-> "called",
                       m |-> [because |-> b, browserid |-> a],
                       selfIdentPayload |-> [poco |-> p],
                       end |-> "", verified |-> 0]
  /\ BacksideIdle
  /\ RelayIdle

\* the step runs to its end, after determineChallenges set this.challenges
RunCheckOrGenerateChallenge ==
  /\ challengeRun.phase = "called"
  /\ LET r == checkOrGenerateChallenge(challengeRun.m,
                                       challengeRun.selfIdentPayload,
                                       SupportedChallenges)
     IN challengeRun' = [challengeRun EXCEPT
          !.phase = "ended", !.end = r.end, !.verified = r.verified]
  /\ UNCHANGED exceptChallenge

NextChallenge == RunCheckOrGenerateChallenge

SpecChallenge == InitChallenge /\ [][NextChallenge]_vars

(***************************************************************************)
(* The phonebook endpoint: PhonebookServerConnection and PhonebookTask     *)
(***************************************************************************)
BookEv(ev, what, ok, blobs) == [ev |-> ev, what |-> what, ok |-> ok, blobs |-> blobs]

InitPhonebook ==
  /\ SignupIdle
  /\ verifier = VerifierIdle
  /\ bookPc = [c \in Conns |-> "root"]
  /\ bookState = [c \in Conns |-> "root"]
  /\ bookArg = [c \in Conns |-> {}]
  /\ bookTrace = [c \in Conns |-> <<>>]
  /\ publicListing \in SUBSET PublicBlobs
  /\ ChallengeIdle
  /\ BacksideIdle
  /\ RelayIdle

\* what the connection makes of the value its handler returned: a task is run,
\* and the protocol state is left as it is
StateAfterHandler(state, returned) ==
  IF returned = "task" THEN state ELSE returned

\* handler _msg_root_listPeeps: spawn a PhonebookTask
MsgRootListPeeps(c) ==
  /\ bookPc[c] = "root" /\ bookState[c] = "root"
  /\ bookPc' = [bookPc EXCEPT ![c] = "scan_phonebook"]
  /\ bookState' = [bookState EXCEPT ![c] = StateAfterHandler(@, "task")]
  /\ UNCHANGED <<exceptBook, bookArg, bookTrace, publicListing>>

\* scan_phonebook that calls the store and does not return its promise
MutScanPhonebookNoReturn(c) ==
  /\ bookPc[c] = "scan_phonebook"
  /\ bookTrace' = [bookTrace EXCEPT ![c] =
       Append(@, BookEv("call", "phonebookScanPublicListing", TRUE, {}))]
  /\ bookPc' = [bookPc EXCEPT ![c] = "report_results_and_close"]
  /\ UNCHANGED <<exceptBook, bookState, bookArg, publicListing>>

\* step scan_phonebook: call the store, wait for what it returns
ScanPhonebook(c) ==
  /\ bookPc[c] = "scan_phonebook"
  /\ bookTrace' = [bookTrace EXCEPT ![c] =
       Append(@, BookEv("call", "phonebookScanPublicListing", TRUE, {}))]
  /\ bookPc' = [bookPc EXCEPT ![c] = "awaitScan"]
  /\ UNCHANGED <<exceptBook, bookState, bookArg, publicListing>>

\* the store settles the scan: with its listing, or with a failure
PhonebookScanSettles(c) ==
  /\ bookPc[c] = "awaitScan"
  /\ \/ /\ bookTrace' = [bookTrace EXCEPT ![c] =
             Append(@, BookEv("return", "phonebookScanPublicListing", TRUE,
                              publicListing))]
        /\ bookArg' = [bookArg EXCEPT ![c] = publicListing]
        /\ bookPc' = [bookPc EXCEPT ![c] = "report_results_and_close"]
     \/ /\ bookTrace' = [bookTrace EXCEPT ![c] =
             Append(@, BookEv("return", "phonebookScanPublicListing", FALSE, {}))]
        /\ bookArg' = bookArg
        /\ bookPc' = [bookPc EXCEPT ![c] = "rejected"]
  /\ UNCHANGED <<exceptBook, bookState, publicListing>>

\* the listing of the store changes while connections are served
PublicListingChanges ==
  /\ \E l \in SUBSET PublicBlobs : l # publicListing /\ publicListing' = l
  /\ UNCHANGED <<exceptBook, bookPc, bookState, bookArg, bookTrace>>

\* step report_results_and_close: write the listing, close the connection
ReportResultsAndClose(c) ==
  /\ bookPc[c] = "report_results_and_close"
  /\ bookTrace' = [bookTrace EXCEPT ![c] =
       @ \o << BookEv("write", "listing", TRUE, bookArg[c]),
               BookEv("close", "", TRUE, {}) >>]
  /\ bookPc' = [bookPc EXCEPT ![c] = "settled"]
  /\ UNCHANGED <<exceptBook, bookState, bookArg, publicListing>>

\* the connection when the task its handler returned is rejected
PhonebookHandlerFailure(c) ==
  /\ bookPc[c] = "rejected"
  /\ bookTrace' = [bookTrace EXCEPT ![c] =
       @ \o << BookEv("write", CHALLENGE_SERVER_PROBLEM, TRUE, {}),
               BookEv("close", "", TRUE, {}) >>]
  /\ bookPc' = [bookPc EXCEPT ![c] = "settled"]
  /\ UNCHANGED <<exceptBook, bookState, bookArg, publicListing>>

BookStep(c) ==
  \/ MsgRootListPeeps(c)
  \/ ScanPhonebook(c)
  \/ PhonebookScanSettles(c)
  \/ ReportResultsAndClose(c)
  \/ PhonebookHandlerFailure(c)

NextPhonebook == (\E c \in Conns : BookStep(c)) \/ PublicListingChanges

SpecPhonebook == InitPhonebook /\ [][NextPhonebook]_vars

(***************************************************************************)
(* ModaBackside (rdcommon/moda/backside.js) with its notification king,    *)
(* its store and its bridge                                                *)
(***************************************************************************)
\* queries a backside is asked for
MaxQueries == 2
\* messages a backside sends to its bridge
MaxSent == 3

\* names given to backsides and to bridge channels
BacksideNames == {"bs1", "bs2"}
\* names the bridge gives its queries
QueryNames == {"q1", "q2"}

NS_PEEPS == "peeps"
NS_CONVBLURBS == "convblurbs"

\* NotificationKing.registerNewQuerySource(name, listener): the source is
\* known by that name
registerNewQuerySource(sources, name) == sources \cup {name}

\* NotificationKing.unregisterQuerySource(name): the source of that name is
\* no longer known
unregisterQuerySource(sources, name) == sources \ {name}

\* NotificationKing.newTrackedQuery(source, name, namespace, def): the handle
newTrackedQuery(uniqueId, source, name, ns) ==
  [uniqueId |-> uniqueId, source |-> source, name |-> name, ns |-> ns]

\* NotificationKing.forgetTrackedQuery(handle)
forgetTrackedQuery(tracked, queryHandle) == tracked \ {queryHandle}

\* JSON.parse(JSON.stringify(message)) of a message whose values are strings
\* and numbers: they come back as they are, and a key whose value is
\* undefined (handle 0) is dropped (handle -1)
JsonRoundtrip(message) ==
  IF message.handle = 0
    THEN [type |-> message.type, handle |-> -1, op |-> message.op]
    ELSE message

\* impl send: log, then hand the message to the bridge through _sendObjFunc
send(b, message) == [b EXCEPT !.sent = Append(@, JsonRoundtrip(message))]

\* _needsbind_queryProblem that reports the failure and keeps the query
MutQueryProblemKeepsQuery(b, queryHandle) ==
  send(b, [type |-> "query", handle |-> queryHandle.uniqueId, op |-> "dead"])

\* impl _needsbind_queryProblem
queryProblem(b, queryHandle) ==
  send([b EXCEPT !.tracked = forgetTrackedQuery(@, queryHandle)],
       [type |-> "query", handle |-> queryHandle.uniqueId, op |-> "dead"])

InitBackside ==
  /\ SignupIdle
  /\ verifier = VerifierIdle
  /\ BookIdle
  /\ ChallengeIdle
  /\ \E n \in BacksideNames :
       backside = [phase |-> "live", name |-> n, bridgeName |-> "",
                   querySource |-> "", sources |-> {}, tracked |-> {},
                   nextUniqueId |-> 1, pending |-> {},
                   outcome |-> [u \in 1..MaxQueries |-> "none"],
                   sent |-> <<>>]
  /\ RelayIdle

\* impl XXXcreateBridgeChannel
XXXcreateBridgeChannel(name) ==
  /\ backside.phase = "live" /\ backside.bridgeName = ""
  /\ backside' = [backside EXCEPT
       !.bridgeName = name,
       !.querySource = name,
       !.sources = registerNewQuerySource(@, name)]
  /\ UNCHANGED exceptBackside

\* impl dead
dead ==
  /\ backside.phase = "live"
  /\ backside' = [backside EXCEPT
       !.phase = "dead",
       !.sources = unregisterQuerySource(@, backside.name)]
  /\ UNCHANGED exceptBackside

\* _cmd_queryPeeps: track the query, ask the store
CmdQueryPeeps(bridgeQueryName) ==
  /\ backside.querySource # ""
  /\ backside.nextUniqueId <= MaxQueries
  /\ LET queryHandle == newTrackedQuery(backside.nextUniqueId,
                          backside.querySource, bridgeQueryName, NS_PEEPS)
     IN backside' = [backside EXCEPT
          !.tracked = @ \cup {queryHandle},
          !.nextUniqueId = @ + 1,
          !.pending = @ \cup {queryHandle}]
  /\ UNCHANGED exceptBackside

\* _cmd_queryPeepConversations: track the query, map the name of the peep,
\* ask the store; a peep the king cannot map ends the command after the
\* query is tracked
CmdQueryPeepConversations(bridgeQueryName, mapped) ==
  /\ backside.querySource # ""
  /\ backside.nextUniqueId <= MaxQueries
  /\ LET queryHandle == newTrackedQuery(backside.nextUniqueId,
                          backside.querySource, bridgeQueryName, NS_CONVBLURBS)
     IN backside' = [backside EXCEPT
          !.tracked = @ \cup {queryHandle},
          !.nextUniqueId = @ + 1,
          !.pending = IF mapped THEN @ \cup {queryHandle} ELSE @]
  /\ UNCHANGED exceptBackside

\* the store settles queryAndWatchPeepBlurbs or
\* queryAndWatchPeepConversationBlurbs: when(promise, null, queryProblem)
StoreQuerySettles(queryHandle, ok) ==
  /\ queryHandle \in backside.pending
  /\ LET b == [backside EXCEPT
                 !.pending = @ \ {queryHandle},
                 !.outcome[queryHandle.uniqueId] = IF ok THEN "ok" ELSE "failed"]
     IN backside' = IF ok THEN b ELSE queryProblem(b, queryHandle)
  /\ UNCHANGED exceptBackside

\* _cmd_killQuery: forgetTrackedQuery is handed the bridge's name of the
\* query, not a handle; the king forgets the queries of that name or nothing
CmdKillQuery(bridgeQueryName, found) ==
  /\ backside.querySource # ""
  /\ backside.tracked # {}
  /\ backside' = [backside EXCEPT
       !.tracked = IF found THEN { h \in @ : h.name # bridgeQueryName } ELSE @]
  /\ UNCHANGED exceptBackside

\* _cmd_whoAmI
CmdWhoAmI ==
  /\ backside.bridgeName # ""
  /\ Len(backside.sent) < MaxSent
  /\ \A i \in 1..Len(backside.sent) : backside.sent[i].type # "whoAmI"
  /\ backside' = send(backside, [type |-> "whoAmI", handle |-> 0, op |-> ""])
  /\ UNCHANGED exceptBackside

NextBackside ==
  \/ \E n \in BacksideNames : XXXcreateBridgeChannel(n)
  \/ dead
  \/ \E q \in QueryNames : CmdQueryPeeps(q)
  \/ \E q \in QueryNames, mapped \in BOOLEAN : CmdQueryPeepConversations(q, mapped)
  \/ \E h \in backside.pending, ok \in BOOLEAN : StoreQuerySettles(h, ok)
  \/ \E q \in QueryNames, found \in BOOLEAN : CmdKillQuery(q, found)
  \/ CmdWhoAmI

SpecBackside == InitBackside /\ [][NextBackside]_vars

(***************************************************************************)
(* The demo relay (clients/fakeserver/ioserver.js): its clients table      *)
(***************************************************************************)
\* signIn messages the relay is sent
MaxSignIns == 3

\* the socket.io clients that connect
Sockets == {"s1", "s2"}
\* data.userId of a signIn message
UserIds == {"", "u1", "u2"}

\* what !id is true of: the empty string, and the _deuxUserId of a client that
\* never signed in
Falsy(id) == id \in {"", "undefined"}

\* Array.prototype.splice(index, 1), index counted from 0
Splice1(list, index) ==
  [k \in 1..(Len(list) - 1) |-> IF k <= index THEN list[k] ELSE list[k + 1]]

\* function send(id, message): the clients message is sent to, in order
Recipients(clients, id) == clients[id]

InitRelay ==
  /\ SignupIdle
  /\ verifier = VerifierIdle
  /\ BookIdle
  /\ ChallengeIdle
  /\ BacksideIdle
  /\ relay = [phase |-> "up",
              clients |-> [u \in UserIds |-> <<>>],
              deuxUserId |-> [x \in Sockets |-> "undefined"],
              connected |-> Sockets,
              redisUsers |-> {},
              signInComplete |-> [x \in Sockets |-> 0],
              signIns |-> 0]

\* actions.signIn
signIn(id, client) ==
  /\ client \in relay.connected
  /\ relay.signIns < MaxSignIns
  /\ relay' = [relay EXCEPT
       !.deuxUserId[client] = id,
       !.redisUsers = @ \cup {id},
       !.clients[id] = Append(@, client),
       !.signInComplete[client] = @ + 1,
       !.signIns = @ + 1]
  /\ UNCHANGED exceptRelay

\* actions.disconnect as it changes the clients table
disconnect(r, client) ==
  LET id == r.deuxUserId[client]
      clientList == r.clients[id]
      index == IndexOf(clientList, client)
  IN IF Falsy(id) THEN r
     ELSE IF index = -1 THEN r
     ELSE [r EXCEPT !.clients[id] = Splice1(clientList, index)]

\* client.on('disconnect'): the socket is gone, actions.disconnect runs
SocketDisconnects(client) ==
  /\ client \in relay.connected
  /\ relay' = disconnect([relay EXCEPT !.connected = @ \ {client}], client)
  /\ UNCHANGED exceptRelay

\* a client sends {action: 'disconnect'} and stays connected
DisconnectMessage(client) ==
  /\ client \in relay.connected
  /\ relay' = disconnect(relay, client)
  /\ relay' # relay
  /\ UNCHANGED exceptRelay

NextRelay ==
  \/ \E id \in UserIds, client \in Sockets : signIn(id, client)
  \/ \E client \in Sockets : SocketDisconnects(client)
  \/ \E client \in Sockets : DisconnectMessage(client)

SpecRelay == InitRelay /\ [][NextRelay]_vars

(***************************************************************************)
(* What the properties speak about                                         *)
(***************************************************************************)
Started(c) == pc[c] \notin {"root", "absent"}
Settled(c) == pc[c] = "settled"

Challenge(mechanism) == Ev("write", "challenge", mechanism)
SignedUp == Ev("write", "signedUp", "")
Close == Ev("close", "", "")
Call(op, key) == Ev("call", op, key)
Return(op, result) == Ev("return", op, result)

HasEvent(c, e) == \E i \in 1..Len(trace[c]) : trace[c][i] = e
IsWrite(e) == e.ev = "write"
IsPeerEvent(e) == e.ev \in {"write", "close"}
IsStoreCall(e) == e.ev = "call"

\* what the peer of c observes: the messages written and the close, in order
PeerView(c) == SelectSeq(trace[c], IsPeerEvent)
\* the calls the task of c made to the account store
StoreCalls(c) == SelectSeq(trace[c], IsStoreCall)

IsPrefix(s, t) == Len(s) <= Len(t) /\ \A i \in 1..Len(s) : s[i] = t[i]

NeverThenClose == << Challenge(CHALLENGE_NEVER), Close >>

\* the bundle's self-ident parses and names another transit server
TransitMismatch(c) ==
  /\ msg[c].selfIdent.wellFormed
  /\ msg[c].selfIdent.transitServerIdent # selfIdentBlob

\* every authorization of a non-empty array is signed by the identity
AllAuthsVerify(c) ==
  /\ msg[c].clientAuths.isArray
  /\ Len(msg[c].clientAuths.items) > 0
  /\ \A i \in 1..Len(msg[c].clientAuths.items) :
       msg[c].clientAuths.items[i].signer = msg[c].selfIdent.rootSignPubKey

\* some authorization names the key of the connection
NamesConnKey(c) ==
  \E i \in 1..Len(msg[c].clientAuths.items) :
    msg[c].clientAuths.items[i].authorizedKey = clientPublicKey(c)

SelfIdentAccepted(c) ==
  /\ msg[c].selfIdent.wellFormed
  /\ msg[c].selfIdent.transitServerIdent = selfIdentBlob
  /\ msg[c].selfIdent.poco.hasDisplayName

\* the request the validator is to reject as a leak of user data
LeakRequest(c) == SelfIdentAccepted(c) /\ AllAuthsVerify(c) /\ ~NamesConnKey(c)

\* the requests rejected as malformed payload or key mismatch
MalformedOrMismatch(c) ==
  \/ ~SelfIdentAccepted(c)
  \/ ~msg[c].clientAuths.isArray
  \/ Len(msg[c].clientAuths.items) = 0

\* the bundle is one the whole validator is to accept
PassesValidator(c) == SelfIdentAccepted(c) /\ AllAuthsVerify(c) /\ NamesConnKey(c)

(***************************************************************************)
(* C1: a signup request whose self-ident names a transit server other than *)
(* this one is answered with the challenge "never" and nothing else, the   *)
(* connection is then closed, and the task calls the account store         *)
(* neither to check nor to create.                                         *)
(***************************************************************************)
C1_TransitMismatchNever ==
  \A c \in Conns :
    (Started(c) /\ TransitMismatch(c)) =>
      /\ IsPrefix(trace[c], NeverThenClose)
      /\ pc[c] \in {"validateSignupRequest", "dealWithInvalidRequest", "settled"}
      /\ Settled(c) => trace[c] = NeverThenClose

C1_Witness ==
  \E c \in Conns : TransitMismatch(c) /\ Settled(c) /\ trace[c] = NeverThenClose

(***************************************************************************)
(* C2: when every client authorization verifies and none names the key of  *)
(* the connection, the peer observes exactly what the peer of a malformed  *)
(* or key-mismatch request observes: one challenge "never", then the       *)
(* close, and the account store is not called in between.                  *)
(***************************************************************************)
C2_LeakLooksLikeMalformed ==
  /\ \A c \in Conns :
       (Started(c) /\ LeakRequest(c)) =>
         /\ StoreCalls(c) = <<>>
         /\ Settled(c) => trace[c] = NeverThenClose
  /\ \A c, d \in Conns :
       (Settled(c) /\ Settled(d) /\ LeakRequest(c) /\ MalformedOrMismatch(d)) =>
         /\ PeerView(c) = PeerView(d)
         /\ trace[c] = trace[d]

C2_Witness ==
  \E c, d \in Conns :
    /\ LeakRequest(c) /\ MalformedOrMismatch(d)
    /\ Settled(c) /\ Settled(d)
    /\ PeerView(c) = NeverThenClose /\ PeerView(d) = NeverThenClose

(***************************************************************************)
(* C3: the challenge "already-signed-up" is written, and                   *)
(* serverCheckUserAccount is called, only for a connection whose bundle    *)
(* passes the whole validator: a peer whose bundle fails validation never  *)
(* learns whether an account exists.                                       *)
(***************************************************************************)
C3_AlreadySignedUpOnlyIfValid ==
  \A c \in Conns :
    \A i \in 1..Len(trace[c]) :
      (\/ trace[c][i] = Challenge(CHALLENGE_ALREADY_SIGNED_UP)
       \/ (trace[c][i].ev = "call" /\ trace[c][i].what = "serverCheckUserAccount"))
        => PassesValidator(c)

C3_Witness ==
  \E c \in Conns :
    HasEvent(c, Challenge(CHALLENGE_ALREADY_SIGNED_UP)) /\ PassesValidator(c)

(***************************************************************************)
(* C4, as the claim states it: serverCreateUserAccount is called only      *)
(* after serverCheckUserAccount was called for the same root key in the    *)
(* same task and has returned true.                                        *)
(***************************************************************************)
C4_Original_CreateOnlyAfterCheckTrue ==
  \A c \in Conns :
    \A i \in 1..Len(trace[c]) :
      (trace[c][i].ev = "call" /\ trace[c][i].what = "serverCreateUserAccount") =>
        \E j, k \in 1..(i-1) :
          /\ j < k
          /\ trace[c][j] = Call("serverCheckUserAccount", trace[c][i].arg)
          /\ trace[c][k] = Return("serverCheckUserAccount", "true")

(***************************************************************************)
(* C4, amended: serverCreateUserAccount is called only after               *)
(* serverCheckUserAccount was called for the same root key in the same     *)
(* task and has returned false (no account); the task never has two store  *)
(* calls in flight, and the check is never called after the create.        *)
(***************************************************************************)
C4_CreateOnlyAfterCheckFalse ==
  \A c \in Conns :
    /\ \A i \in 1..Len(trace[c]) :
         (trace[c][i].ev = "call" /\ trace[c][i].what = "serverCreateUserAccount") =>
           /\ \E j, k \in 1..(i-1) :
                /\ j < k
                /\ trace[c][j] = Call("serverCheckUserAccount", trace[c][i].arg)
                /\ trace[c][k] = Return("serverCheckUserAccount", "false")
           /\ \A j \in (i+1)..Len(trace[c]) : trace[c][j].ev # "call"
    /\ \A i \in 1..Len(trace[c]) :
         LET calls == Cardinality({ j \in 1..i : trace[c][j].ev = "call" })
             returns == Cardinality({ j \in 1..i : trace[c][j].ev = "return" })
         IN calls - returns \in {0, 1}

C4_Witness ==
  \E c \in Conns :
    /\ HasEvent(c, Call("serverCreateUserAccount", msg[c].selfIdent.rootSignPubKey))
    /\ HasEvent(c, Return("serverCheckUserAccount", "false"))

(***************************************************************************)
(* C5: when serverCheckUserAccount reports an account for the bundle's     *)
(* root key, the task writes the challenge "already-signed-up", closes the *)
(* connection and never calls serverCreateUserAccount.                     *)
(***************************************************************************)
C5_ExistingAccountEndsTask ==
  \A c \in Conns :
    HasEvent(c, Return("serverCheckUserAccount", "true")) =>
      LET key == msg[c].selfIdent.rootSignPubKey
          answered == << Call("serverCheckUserAccount", key),
                         Return("serverCheckUserAccount", "true"),
                         Challenge(CHALLENGE_ALREADY_SIGNED_UP), Close >>
      IN /\ pc[c] \in {"verifyNoExistingAccount", "settled"}
         /\ IsPrefix(trace[c], answered)
         /\ Settled(c) => trace[c] = answered

C5_Witness ==
  \E c \in Conns :
    /\ HasEvent(c, Return("serverCheckUserAccount", "true"))
    /\ Settled(c)
    /\ PeerView(c) = << Challenge(CHALLENGE_ALREADY_SIGNED_UP), Close >>

(***************************************************************************)
(* C6: an attempt for a valid identity that begins when the store already  *)
(* holds the identity's account (the store keeps the accounts it created,  *)
(* so this is every attempt made after a successful signup) never calls    *)
(* serverCreateUserAccount, and once the store has answered the check it   *)
(* is answered with the challenge "already-signed-up".                     *)
(***************************************************************************)
C6_NoSecondCreate ==
  \A c \in Conns :
    (Started(c) /\ PassesValidator(c) /\ hadAccount[c]) =>
      LET key == msg[c].selfIdent.rootSignPubKey
      IN /\ ~HasEvent(c, Call("serverCreateUserAccount", key))
         /\ ~HasEvent(c, Return("serverCheckUserAccount", "false"))
         /\ ~HasEvent(c, SignedUp)
         /\ (Settled(c) /\ ~HasEvent(c, Return("serverCheckUserAccount", "rejected")))
              => PeerView(c) = << Challenge(CHALLENGE_ALREADY_SIGNED_UP), Close >>

C6_Witness ==
  \E c, d \in Conns :
    /\ c # d
    /\ msg[c].selfIdent.rootSignPubKey = msg[d].selfIdent.rootSignPubKey
    /\ HasEvent(d, Return("serverCreateUserAccount", "created"))
    /\ HasEvent(d, SignedUp)
    /\ PassesValidator(c) /\ hadAccount[c] /\ Settled(c)
    /\ PeerView(c) = << Challenge(CHALLENGE_ALREADY_SIGNED_UP), Close >>

(***************************************************************************)
(* C7, as the claim states it: with "none" in the challenge catalog, a     *)
(* validated request for which the store reported no account goes on to    *)
(* account creation whatever its because payload holds.                    *)
(***************************************************************************)
C7_NoneInCatalogAlwaysProceeds ==
  \A c \in Conns :
    (/\ PassesValidator(c)
     /\ HasEvent(c, Return("serverCheckUserAccount", "false"))
     /\ IndexOf(task[c].challenges, "none") # -1
     /\ pc[c] # "checkOrGenerateChallenge") =>
       \/ pc[c] = "doTheSignup"
       \/ HasEvent(c, Call("serverCreateUserAccount", msg[c].selfIdent.rootSignPubKey))

(***************************************************************************)
(* C8, as the claim states it: a bundle with one authorization, naming the *)
(* connection's key, with a displayName and this server as transit server, *)
(* for which the store reports no account and creates one when asked, ends *)
(* with exactly one message signedUp, then the close, after exactly one    *)
(* call of serverCreateUserAccount for the identity.                       *)
(***************************************************************************)
C8_ValidBundleIsSignedUp ==
  \A c \in Conns :
    (/\ Settled(c)
     /\ PassesValidator(c)
     /\ Len(msg[c].clientAuths.items) = 1
     /\ HasEvent(c, Return("serverCheckUserAccount", "false"))
     /\ ~HasEvent(c, Return("serverCreateUserAccount", "rejected"))) =>
       LET key == msg[c].selfIdent.rootSignPubKey
       IN trace[c] = << Call("serverCheckUserAccount", key),
                        Return("serverCheckUserAccount", "false"),
                        Call("serverCreateUserAccount", key),
                        Return("serverCreateUserAccount", "created"),
                        SignedUp, Close >>

(***************************************************************************)
(* C9: a signup attempt that has ended, whatever its outcome, has written  *)
(* exactly one message to the peer and then closed the connection; an      *)
(* attempt that has not ended has written nothing.                         *)
(***************************************************************************)
C9_OneTerminalMessageThenClose ==
  \A c \in Conns :
    /\ Settled(c) =>
         /\ Len(PeerView(c)) = 2
         /\ IsWrite(PeerView(c)[1])
         /\ PeerView(c)[1].what \in {"challenge", "signedUp"}
         /\ PeerView(c)[2] = Close
    /\ ~Settled(c) => PeerView(c) = <<>>

C9_Witness ==
  \E c \in Conns :
    /\ Settled(c)
    /\ HasEvent(c, Return("serverCreateUserAccount", "rejected"))
    /\ Len(PeerView(c)) = 2 /\ PeerView(c)[2] = Close

\* the because payload holds a kind of the catalog, for which the loop of
\* checkOrGenerateChallenge throws
ChallengeStepThrows(c) ==
  \E i \in 1..Len(msg[c].because) : msg[c].because[i] \in {"none", "browserid"}

Escaped(c) ==
  \/ HasEvent(c, Return("serverCheckUserAccount", "rejected"))
  \/ HasEvent(c, Return("serverCreateUserAccount", "rejected"))
  \/ /\ PassesValidator(c)
     /\ HasEvent(c, Return("serverCheckUserAccount", "false"))
     /\ ChallengeStepThrows(c)

(***************************************************************************)
(* C10: when an exception escapes a signup task (the store rejects the     *)
(* check or the create, or the challenge step throws), the peer of that    *)
(* task gets the challenge "server-problem-try-again-later" and then the   *)
(* close; no other task is answered that way for it, and every other       *)
(* unfinished task can still take its next step.                           *)
(***************************************************************************)
C10_EscapedExceptionFailsOnlyItsTask ==
  \A c \in Conns :
    /\ (Settled(c) /\ Escaped(c)) =>
         PeerView(c) = << Challenge(CHALLENGE_SERVER_PROBLEM), Close >>
    /\ (pc[c] = "rejected" \/ HasEvent(c, Challenge(CHALLENGE_SERVER_PROBLEM)))
         => Escaped(c)
    /\ \A d \in Conns \ {c} :
         (Settled(c) /\ Escaped(c) /\ pc[d] \notin {"settled", "absent"})
           => ENABLED ConnStep(d)

C10_Witness ==
  \E c, d \in Conns :
    /\ c # d
    /\ Settled(c) /\ Escaped(c)
    /\ PeerView(c) = << Challenge(CHALLENGE_SERVER_PROBLEM), Close >>
    /\ Settled(d) /\ PeerView(d) = << SignedUp, Close >>

(***************************************************************************)
(* C11: when two signup tasks for the same identity run at once on two     *)
(* connections, and both may see the check return false, at most one of    *)
(* the two peers is sent signedUp, the store creating the account for at   *)
(* most one caller; signedUp is sent only to the caller it created for.    *)
(***************************************************************************)
C11_AtMostOneSignedUp ==
  \A c, d \in Conns :
    /\ (c # d /\ msg[c].selfIdent.rootSignPubKey = msg[d].selfIdent.rootSignPubKey)
         => ~(HasEvent(c, SignedUp) /\ HasEvent(d, SignedUp))
    /\ HasEvent(c, SignedUp)
         => HasEvent(c, Return("serverCreateUserAccount", "created"))

C11_Witness ==
  \E c, d \in Conns :
    /\ c # d
    /\ msg[c].selfIdent.rootSignPubKey = msg[d].selfIdent.rootSignPubKey
    /\ HasEvent(c, Return("serverCheckUserAccount", "false"))
    /\ HasEvent(d, Return("serverCheckUserAccount", "false"))
    /\ HasEvent(c, SignedUp)
    /\ HasEvent(d, Call("serverCreateUserAccount", msg[d].selfIdent.rootSignPubKey))
    /\ Settled(d) /\ ~HasEvent(d, SignedUp)

(***************************************************************************)
(* C16: once a challenge has been written on a connection its task is      *)
(* over: only the close follows, so the task calls neither                 *)
(* serverCheckUserAccount nor serverCreateUserAccount afterwards and never *)
(* writes signedUp.                                                        *)
(***************************************************************************)
C16_NothingAfterChallenge ==
  \A c \in Conns :
    \A i \in 1..Len(trace[c]) :
      (trace[c][i].ev = "write" /\ trace[c][i].what = "challenge") =>
        /\ pc[c] = "settled"
        /\ Len(trace[c]) = i + 1
        /\ trace[c][i + 1] = Close
        /\ \A j \in (i+1)..Len(trace[c]) :
             trace[c][j].ev # "call" /\ trace[c][j] # SignedUp

C16_Witness ==
  \E c \in Conns :
    LET key == msg[c].selfIdent.rootSignPubKey
    IN trace[c] = << Call("serverCheckUserAccount", key),
                     Return("serverCheckUserAccount", "true"),
                     Challenge(CHALLENGE_ALREADY_SIGNED_UP), Close >>

\* the steps of ProcessSignupTask in the order it declares them
StepOrder ==
  << "validateSignupRequest", "dealWithInvalidRequest", "checkForExistingAccount",
     "verifyNoExistingAccount", "determineChallenges", "checkOrGenerateChallenge",
     "doTheSignup", "tellThemTheyAreSignedUp" >>

\* the place in StepOrder of the step a task is in or waits in: 0 before the
\* task is spawned, Len(StepOrder) + 1 once it is over
PcStep(p) ==
  IF p = "root" THEN 0
  ELSE IF p = "awaitCheck" THEN IndexOf(StepOrder, "checkForExistingAccount") + 1
  ELSE IF p = "awaitCreate" THEN IndexOf(StepOrder, "doTheSignup") + 1
  ELSE IF IndexOf(StepOrder, p) # -1 THEN IndexOf(StepOrder, p) + 1
  ELSE Len(StepOrder) + 1

\* the store calls of c that have not returned
InFlight(tr) ==
  Cardinality({ j \in 1..Len(tr) : tr[j].ev = "call" })
    - Cardinality({ j \in 1..Len(tr) : tr[j].ev = "return" })

(***************************************************************************)
(* C17: a task moves from a step only to the wait for that step's result,  *)
(* to the step declared next, or to its end, and while a store call of the *)
(* task is in flight the task is waiting for it: no two steps of one task  *)
(* are active at once.  Tasks of different connections are suspended at    *)
(* the same time.                                                          *)
(***************************************************************************)
C17_StepsInDeclarationOrder ==
  [][ \A c \in Conns :
        /\ pc'[c] # pc[c] =>
             \/ PcStep(pc'[c]) = PcStep(pc[c]) + 1
             \/ PcStep(pc'[c]) = Len(StepOrder) + 1
             \/ /\ PcStep(pc'[c]) = PcStep(pc[c])
                /\ pc'[c] \in {"awaitCheck", "awaitCreate"}
        /\ InFlight(trace'[c]) \in {0, 1}
        /\ InFlight(trace'[c]) = 1 => pc'[c] \in {"awaitCheck", "awaitCreate"}
        /\ pc'[c] \in {"awaitCheck", "awaitCreate"} => InFlight(trace'[c]) = 1
    ]_vars

C17_Witness ==
  \E c, d \in Conns :
    /\ c # d
    /\ pc[c] = "awaitCheck" /\ InFlight(trace[c]) = 1
    /\ pc[d] = "awaitCreate" /\ InFlight(trace[d]) = 1

(***************************************************************************)
(* C18: when a step of the validator throws, whatever the error, the       *)
(* validator resolves with false: the parent task is not rejected, it sees *)
(* a falsy validBits and answers "never".                                  *)
(***************************************************************************)
C18_ValidatorFailsSoftly ==
  \A c \in Conns :
    (Started(c) /\ ~PassesValidator(c)) =>
      /\ pc[c] \in {"validateSignupRequest", "dealWithInvalidRequest", "settled"}
      /\ pc[c] = "dealWithInvalidRequest" => ~task[c].validBits.valid
      /\ IsPrefix(trace[c], NeverThenClose)
      /\ Settled(c) => trace[c] = NeverThenClose

C18_Witness ==
  \E c \in Conns :
    /\ msg[c].selfIdent.wellFormed
    /\ msg[c].selfIdent.transitServerIdent = selfIdentBlob
    /\ ~msg[c].selfIdent.poco.hasDisplayName
    /\ Settled(c) /\ trace[c] = NeverThenClose

(***************************************************************************)
(* C19: the validator accepts a bundle only if clientAuths is a non-empty  *)
(* array all of whose entries are signed by the identity; one entry that   *)
(* fails, at any position, rejects the bundle, also when another entry     *)
(* authorizes the key of the connection.                                   *)
(***************************************************************************)
C19_NoPartialAcceptance ==
  \A c \in Conns :
    (Started(c) /\ pc[c] # "validateSignupRequest") =>
      /\ task[c].validBits.valid => AllAuthsVerify(c)
      /\ ~AllAuthsVerify(c) =>
           /\ StoreCalls(c) = <<>>
           /\ Settled(c) => trace[c] = NeverThenClose

C19_Witness ==
  \E c \in Conns :
    LET items == msg[c].clientAuths.items
    IN /\ SelfIdentAccepted(c) /\ msg[c].clientAuths.isArray
       /\ Len(items) = 2
       /\ items[1].signer = msg[c].selfIdent.rootSignPubKey
       /\ items[1].authorizedKey = clientPublicKey(c)
       /\ items[2].signer # msg[c].selfIdent.rootSignPubKey
       /\ Settled(c) /\ trace[c] = NeverThenClose

(***************************************************************************)
(* C20, as the claim states it: a bundle whose profile carries no          *)
(* displayName, or an empty one, is rejected: its peer gets "never" and    *)
(* the account store is not called.                                        *)
(***************************************************************************)
C20_EmptyDisplayNameRejected ==
  \A c \in Conns :
    (/\ Started(c)
     /\ msg[c].selfIdent.wellFormed
     /\ (~msg[c].selfIdent.poco.hasDisplayName
           \/ msg[c].selfIdent.poco.displayName = "")) =>
       /\ StoreCalls(c) = <<>>
       /\ Settled(c) => trace[c] = NeverThenClose

\* the profile carries exactly one e-mail address, a string
OneStringEmail(poco) ==
  poco.hasEmails /\ Len(poco.emails) = 1 /\ poco.emails[1].isString

(***************************************************************************)
(* C12, as the claim states it: a call of the verifier on an assertion     *)
(* whose certificate chain does not verify ends with the outcome           *)
(* "server-problem-try-again-later".                                       *)
(***************************************************************************)
C12_ChainErrorIsServerProblem ==
  (/\ verifier.phase = "ended"
   /\ OneStringEmail(verifier.poco)
   /\ verifier.assertion.wellFormed /\ ~verifier.assertion.chainOk) =>
     /\ ~verifier.outcome.threw
     /\ verifier.outcome.result = CHALLENGE_SERVER_PROBLEM

(***************************************************************************)
(* C13, as the claim states it: a call of the verifier on an assertion     *)
(* whose chain verifies and whose principal e-mail is not the one e-mail   *)
(* of the profile ends with the outcome "bad-browserid-assertion".         *)
(***************************************************************************)
C13_EmailMismatchIsBadAssertion ==
  (/\ verifier.phase = "ended"
   /\ OneStringEmail(verifier.poco)
   /\ verifier.assertion.wellFormed /\ verifier.assertion.chainOk
   /\ verifier.assertion.principalEmail # verifier.poco.emails[1].text) =>
     /\ ~verifier.outcome.threw
     /\ verifier.outcome.result = CHALLENGE_INVALID_BROWSERID

(***************************************************************************)
(* C14, as the claim states it: on a profile that does not carry exactly   *)
(* one string e-mail the verifier returns "bad-browserid-assertion" at     *)
(* once, with no chain verification started and no promise returned; on a  *)
(* profile that does, it goes on to unbundle the assertion and, where that *)
(* unbundles, to verify its chain.                                         *)
(***************************************************************************)
C14_OneStringEmailOrBadAssertion ==
  verifier.phase = "ended" =>
    IF OneStringEmail(verifier.poco)
      THEN /\ verifier.outcome.unbundled
           /\ verifier.assertion.wellFormed => verifier.outcome.chain
      ELSE /\ ~verifier.outcome.threw
           /\ verifier.outcome.result = CHALLENGE_INVALID_BROWSERID
           /\ ~verifier.outcome.unbundled
           /\ ~verifier.outcome.chain
           /\ ~verifier.outcome.promise

\* the events of a phonebook connection that is served to its end
ListingRun(blobs) ==
  << BookEv("call", "phonebookScanPublicListing", TRUE, {}),
     BookEv("return", "phonebookScanPublicListing", TRUE, blobs),
     BookEv("write", "listing", TRUE, blobs),
     BookEv("close", "", TRUE, {}) >>

\* the events of a phonebook connection whose scan failed
FailedScanRun ==
  << BookEv("call", "phonebookScanPublicListing", TRUE, {}),
     BookEv("return", "phonebookScanPublicListing", FALSE, {}),
     BookEv("write", CHALLENGE_SERVER_PROBLEM, TRUE, {}),
     BookEv("close", "", TRUE, {}) >>

(***************************************************************************)
(* C15: a phonebook connection that got listPeeps calls the store's scan   *)
(* once, writes one listing message only after the scan has returned,      *)
(* with the blobs the scan returned, and then closes; the state of the     *)
(* connection stays root.                                                  *)
(***************************************************************************)
C15_ScanThenListingThenClose ==
  \A c \in Conns :
    /\ bookState[c] = "root"
    /\ \E blobs \in SUBSET PublicBlobs :
         \/ IsPrefix(bookTrace[c], ListingRun(blobs))
         \/ IsPrefix(bookTrace[c], FailedScanRun)
    /\ bookPc[c] = "settled" =>
         \/ \E blobs \in SUBSET PublicBlobs : bookTrace[c] = ListingRun(blobs)
         \/ bookTrace[c] = FailedScanRun

C15_Witness ==
  \E c \in Conns :
    /\ bookPc[c] = "settled"
    /\ bookTrace[c] = ListingRun({"blobA"})
    /\ publicListing # {"blobA"}

ChallengeMechanisms ==
  {CHALLENGE_NEVER, CHALLENGE_ALREADY_SIGNED_UP, CHALLENGE_INVALID_BROWSERID,
   CHALLENGE_SERVER_PROBLEM}

(***************************************************************************)
(* C25: every challenge message written to a peer carries one of the four  *)
(* mechanisms "never", "already-signed-up", "bad-browserid-assertion",     *)
(* "server-problem-try-again-later", and every message written is a        *)
(* challenge or signedUp.                                                  *)
(***************************************************************************)
C25_MechanismIsOneOfFour ==
  \A c \in Conns :
    \A i \in 1..Len(trace[c]) :
      trace[c][i].ev = "write" =>
        \/ trace[c][i] = SignedUp
        \/ /\ trace[c][i].what = "challenge"
           /\ trace[c][i].arg \in ChallengeMechanisms

C25_Witness ==
  \E c \in Conns :
    /\ PassesValidator(c) /\ ~hadAccount[c]
    /\ msg[c].because # <<>>
    /\ checkOrGenerateChallenge(msg[c], task[c].selfIdentPayload,
                                task[c].challenges).end = "throw"
    /\ Settled(c)
    /\ PeerView(c) = << Challenge(CHALLENGE_SERVER_PROBLEM), Close >>

(***************************************************************************)
(* C26: signedUp is written on a connection only after its task called     *)
(* serverCreateUserAccount and that call returned with success; while the  *)
(* call is pending, and after it failed, the connection has no signedUp.   *)
(***************************************************************************)
C26_SignedUpOnlyAfterCreated ==
  \A c \in Conns :
    LET key == msg[c].selfIdent.rootSignPubKey
    IN /\ \A k \in 1..Len(trace[c]) :
            trace[c][k] = SignedUp =>
              \E i, j \in 1..(k-1) :
                /\ i < j
                /\ trace[c][i] = Call("serverCreateUserAccount", key)
                /\ trace[c][j] = Return("serverCreateUserAccount", "created")
       /\ pc[c] = "awaitCreate" => ~HasEvent(c, SignedUp)
       /\ HasEvent(c, Return("serverCreateUserAccount", "rejected"))
            => ~HasEvent(c, SignedUp)

C26_Witness ==
  \E c \in Conns :
    LET key == msg[c].selfIdent.rootSignPubKey
    IN /\ Settled(c)
       /\ StoreCalls(c) = << Call("serverCheckUserAccount", key),
                             Call("serverCreateUserAccount", key) >>
       /\ PeerView(c) = << SignedUp, Close >>

\* the challenge run's because payload holds the key k
RunHasKey(k) ==
  \E i \in 1..Len(challengeRun.m.because) : challengeRun.m.because[i] = k

\* the assertion passes every check the verifier is to make after the chain
\* verified
TokenPasses(poco, assertion) ==
  /\ ~assertion.audienceHasDot
  /\ assertion.principalEmail = poco.emails[1].text
  /\ assertion.sigOk

(***************************************************************************)
(* C22, as the claim states it: when no verifier fails at once and one is  *)
(* pending (browserid on a profile with one string e-mail and an assertion *)
(* that unbundles), the step waits for it and then either issues a         *)
(* challenge or goes on to the account creation; it goes on only if the    *)
(* outcome is empty, that is if the chain verifies and the token passes.   *)
(* The step does not end by a throw.                                       *)
(***************************************************************************)
C22_PendingVerifiersAreAwaited ==
  (/\ challengeRun.phase = "ended"
   /\ RunHasKey("browserid")
   /\ OneStringEmail(challengeRun.selfIdentPayload.poco)
   /\ challengeRun.m.browserid.wellFormed) =>
     /\ challengeRun.end # "throw"
     /\ challengeRun.end = "next" <=>
          /\ challengeRun.m.browserid.chainOk
          /\ TokenPasses(challengeRun.selfIdentPayload.poco,
                         challengeRun.m.browserid)

IsSupported(k) == IndexOf(SupportedChallenges, k) # -1

C24_DroppedTaskRunsNoFurtherStep ==
  \A c \in Conns :
    \A i \in 1..Len(trace[c]) :
      trace[c][i].ev = "drop" =>
        /\ pc[c] \in {"droppedCheck", "droppedCreate", "released"}
        /\ trace[c][i - 1].ev = "call"
        /\ Len(trace[c]) <= i + 1
        /\ \A j \in (i+1)..Len(trace[c]) :
             /\ trace[c][j].ev = "return"
             /\ trace[c][j].what = trace[c][i - 1].what

C24_Witness ==
  \E c \in Conns :
    LET key == msg[c].selfIdent.rootSignPubKey
    IN /\ pc[c] = "released"
       /\ trace[c] = << Call("serverCheckUserAccount", key),
                        Ev("drop", "", ""),
                        Return("serverCheckUserAccount", "false") >>

\* the dead messages the bridge got for the query of that uniqueId
DeadMessages(b, u) ==
  { i \in 1..Len(b.sent) :
      b.sent[i] = [type |-> "query", handle |-> u, op |-> "dead"] }

(***************************************************************************)
(* C27: when the store operation behind a tracked query fails, the query   *)
(* is removed from the tracker and one message {type "query", handle: the  *)
(* uniqueId of the query, op "dead"} is sent to the bridge; when it        *)
(* succeeds, nothing is sent and the tracker is left as it is.  The bridge *)
(* holds one dead message for every query that failed and none for any     *)
(* other.                                                                  *)
(***************************************************************************)
C27_FailedQueryIsForgottenAndReported ==
  [][ /\ \A h \in backside.pending \ backside'.pending :
           IF backside'.outcome[h.uniqueId] = "failed"
             THEN /\ h \notin backside'.tracked
                  /\ backside'.tracked = backside.tracked \ {h}
                  /\ backside'.sent =
                       Append(backside.sent,
                              [type |-> "query", handle |-> h.uniqueId,
                               op |-> "dead"])
             ELSE /\ backside'.tracked = backside.tracked
                  /\ backside'.sent = backside.sent
      /\ \A u \in 1..MaxQueries :
           Cardinality(DeadMessages(backside', u)) =
             IF backside'.outcome[u] = "failed" THEN 1 ELSE 0
    ]_vars

C27_Witness ==
  /\ backside.outcome = [u \in 1..MaxQueries |-> IF u = 1 THEN "ok" ELSE "failed"]
  /\ \E h \in backside.tracked : h.uniqueId = 1
  /\ ~\E h \in backside.tracked : h.uniqueId = 2
  /\ Cardinality(DeadMessages(backside, 2)) = 1

(***************************************************************************)
(* C28, as the claim states it: after dead() the query source that         *)
(* XXXcreateBridgeChannel registered with the notification king is not     *)
(* registered any more, whatever the name of the backside and the name of  *)
(* the bridge channel.                                                     *)
(***************************************************************************)
C28_DeadUnregistersTheQuerySource ==
  (backside.phase = "dead" /\ backside.querySource # "") =>
    backside.querySource \notin backside.sources

(***************************************************************************)
(* C29, as the claim states it: a client that has disconnected is in no    *)
(* user's client list, so that send(id, message) reaches no disconnected   *)
(* client, also when the client signed in more than once or under more     *)
(* than one user id.                                                       *)
(***************************************************************************)
C29_DisconnectedClientIsInNoList ==
  \A id \in UserIds :
    \A i \in 1..Len(Recipients(relay.clients, id)) :
      Recipients(relay.clients, id)[i] \in relay.connected

====
